---- MODULE Spec2Model ----
(***************************************************************************)
(* Minimizacion de AFD por tabla de distinguibilidad (tarea1.py).          *)
(*                                                                         *)
(* The model follows the program: main reads the number of cases and, for  *)
(* each case, procesar_caso_prueba reads the description from the shared   *)
(* line cursor, validates it (validar_entrada), builds the table           *)
(* (crear_tabla_distinguibilidad: base case, then passes until a pass      *)
(* marks nothing) and extracts the unmarked pairs                          *)
(* (encontrar_pares_equivalentes).                                         *)
(*                                                                         *)
(* States are numbered 0..estados-1 as in the program.  A transition row   *)
(* is a sequence, so transiciones[i][s] of the program is                  *)
(* transiciones[i+1][s+1] here; tabla is a function on 0..estados-1 twice. *)
(* A line of the input file is the sequence of its integer tokens.         *)
(***************************************************************************)
EXTENDS Integers, Sequences, FiniteSets, TLC

VARIABLES
    lines,              \* main: the lines not yet consumed by input()
    casos,              \* main: number of test cases announced by the file
    caso,               \* main: index of the case being processed (1-based)
    salida,             \* main: per finished case, what procesar_caso_prueba returned
    cortes,             \* per finished case, the lines left when it returned
    bloques,            \* the number of lines of each case of the input file
    pc,                 \* position in the program
    estados,            \* number of states of the current description
    estados_finales,    \* its final states
    transiciones,       \* its transition rows
    error,              \* outcome of validar_entrada ("none" before it ran)
    tabla,              \* the distinguishability table under construction
    par,                \* index into Pares(estados) of the pair the loops are at
    cambiado,           \* crear_tabla_distinguibilidad: the while loop's flag
    iteracion,          \* crear_tabla_distinguibilidad: passes started so far
    lecturas,           \* reads made by the last step of a pass
    resultado           \* what procesar_caso_prueba returns (NoResult before)

vars == <<lines, casos, caso, salida, cortes, bloques, pc, estados, estados_finales,
          transiciones, error, tabla, par, cambiado, iteracion, lecturas,
          resultado>>

mainVars == <<lines, casos, caso, salida, cortes, bloques>>
descVars == <<estados, estados_finales, transiciones>>

(***************************************************************************)
(* Bounds of the explored inputs.                                          *)
(***************************************************************************)
MaxSize == 4        \* valid descriptions: states plus symbols of the longest row
ValMax == 2         \* malformed descriptions and the cases of a file: values up to ValMax
MaxCasos == 2       \* input files hold up to MaxCasos cases

None == "None"
NoResult == "NoResult"

Min(a, b) == IF a < b THEN a ELSE b
Max(a, b) == IF a < b THEN b ELSE a

RECURSIVE SeqsUpTo(_, _)
\* all sequences over S of length 0..n
SeqsUpTo(S, n) ==
    IF n = 0 THEN {<<>>}
    ELSE LET shorter == SeqsUpTo(S, n - 1)
         IN  shorter \cup {Append(w, x) : w \in {v \in shorter : Len(v) = n - 1}, x \in S}

Range(s) == {s[k] : k \in 1..Len(s)}

(***************************************************************************)
(* The pairs (i, j), i < j, in the order of the nested loops               *)
(*   for i in range(estados): for j in range(i + 1, estados)               *)
(***************************************************************************)
RECURSIVE ParesDesde(_, _, _)
ParesDesde(i, j, n) ==
    IF i >= n THEN <<>>
    ELSE IF j >= n THEN ParesDesde(i + 1, i + 2, n)
    ELSE <<<<i, j>>>> \o ParesDesde(i, j + 1, n)

Pares(n) == ParesDesde(0, 1, n)

\* validar_entrada with "estado > estados" for "estado >= estados"
validar_entrada_limite(n, finales, trans) ==
    IF n <= 0 THEN "InvalidStateCount"
    ELSE IF \E e \in finales : e < 0 \/ e > n THEN "FinalStateOutOfRange"
    ELSE IF Len(trans) # n THEN "TransitionRowCountMismatch"
    ELSE IF \E i \in 1..Len(trans) : \E s \in 1..Len(trans[i]) :
                trans[i][s] < 0 \/ trans[i][s] >= n
         THEN "TransitionTargetOutOfRange"
    ELSE "ok"

(***************************************************************************)
(* validar_entrada: the first failing check decides the message.           *)
(***************************************************************************)
validar_entrada(n, finales, trans) ==
    IF n <= 0 THEN "InvalidStateCount"
    ELSE IF \E e \in finales : e < 0 \/ e >= n THEN "FinalStateOutOfRange"
    ELSE IF Len(trans) # n THEN "TransitionRowCountMismatch"
    ELSE IF \E i \in 1..Len(trans) : \E s \in 1..Len(trans[i]) :
                trans[i][s] < 0 \/ trans[i][s] >= n
         THEN "TransitionTargetOutOfRange"
    ELSE "ok"

(***************************************************************************)
(* Python indexing: seq[k] is defined for -len <= k < len, a negative k    *)
(* counting from the end; any other k raises IndexError.                   *)
(***************************************************************************)
PyOk(k, len) == -len <= k /\ k < len
PyAt(k, len) == IF k < 0 THEN k + len ELSE k

TablaVacia(n) == [i \in 0..(n - 1) |-> [j \in 0..(n - 1) |-> FALSE]]

\* tabla[i][j] = True
Marcar(tab, i, j) == [tab EXCEPT ![i][j] = TRUE]

\* the base case testing only "i final, j not"
FinalidadSoloPrimero(finales, i, j) == (i \in finales) /\ (j \notin finales)

\* the base case with == for !=
FinalidadIgual(finales, i, j) == (i \in finales) = (j \in finales)

\* (i in estados_finales) != (j in estados_finales)
FinalidadDistinta(finales, i, j) == (i \in finales) # (j \in finales)

LecturaFila(i, s) == [t |-> "fila", a |-> i, b |-> s]
LecturaTabla(p, q) == [t |-> "tabla", a |-> p, b |-> q]

\* the lookup without the exchange of p and q
OrdenarSinCambio(p, q) == <<p, q>>

\* the pair (p, q) the table is looked up at: "if p > q: p, q = q, p"
Ordenar(p, q) == IF p > q THEN <<q, p>> ELSE <<p, q>>

\* the lookup replaced by "the destinations differ"
ConsultarDistintos(tab, n, p, q) == p # q

\* "if tabla[p][q]:", for indices Python accepts
Consultar(tab, n, p, q) == tab[PyAt(p, n)][PyAt(q, n)]

\* the outcome of a pair the pass does not examine ("if not tabla[i][j]" is false)
Omitido == [marca |-> FALSE, exc |-> FALSE, leidos |-> {}]

(***************************************************************************)
(* The loop "for simbolo in range(len(transiciones[i]))" for the pair      *)
(* (i, j), from symbol s on.  marca: the loop reached tabla[i][j] = True   *)
(* (and broke out); exc: a table lookup raised IndexError; leidos: the     *)
(* reads made.                                                             *)
(***************************************************************************)
RECURSIVE RevisarSimbolos(_, _, _, _, _, _)
RevisarSimbolos(tab, trans, n, i, j, s) ==
    IF s >= Len(trans[i + 1])
    THEN Omitido
    ELSE IF s >= Len(trans[j + 1])
    THEN RevisarSimbolos(tab, trans, n, i, j, s + 1)
    ELSE LET pq == Ordenar(trans[i + 1][s + 1], trans[j + 1][s + 1])
             p == pq[1]
             q == pq[2]
             filas == {LecturaFila(i, s), LecturaFila(j, s)}
         IN  IF ~(PyOk(p, n) /\ PyOk(q, n))
             THEN [marca |-> FALSE, exc |-> TRUE,
                   leidos |-> filas \cup {LecturaTabla(p, q)}]
             ELSE IF Consultar(tab, n, p, q)
             THEN [marca |-> TRUE, exc |-> FALSE,
                   leidos |-> filas \cup {LecturaTabla(p, q)}]
             ELSE LET r == RevisarSimbolos(tab, trans, n, i, j, s + 1)
                  IN  [r EXCEPT !.leidos = @ \cup filas \cup {LecturaTabla(p, q)}]

\* "tabla[i][j] = <found>" for every pair of the pass
ActualizarParAsignando(tab, i, j, r) == [tab EXCEPT ![i][j] = r.marca]

\* "cambiado = True" for every pair of the pass
TrasRevisarSiempre(c, marca) == TRUE

\* "tabla[i][j] = True" where the loop over the symbols reached it
ActualizarPar(tab, i, j, r) == IF r.marca THEN Marcar(tab, i, j) ELSE tab

\* "cambiado = True" beside it
TrasRevisar(c, marca) == c \/ marca

\* encontrar_pares_equivalentes reading tabla[j][i]
encontrar_pares_transpuesta(n, tab) ==
    SelectSeq(Pares(n), LAMBDA pr : ~tab[pr[2]][pr[1]])

\* encontrar_pares_equivalentes: the unmarked pairs, in loop order
encontrar_pares_equivalentes(n, tab) ==
    SelectSeq(Pares(n), LAMBDA pr : ~tab[pr[1]][pr[2]])

(***************************************************************************)
(* procesar_caso_prueba, from the validation on.                           *)
(***************************************************************************)
ValidarEntrada ==
    /\ pc = "validar"
    /\ error' = validar_entrada(estados, estados_finales, transiciones)
    /\ IF error' = "ok"
       THEN /\ tabla' = TablaVacia(estados)
            /\ par' = 1
            /\ pc' = "base"
            /\ UNCHANGED resultado
       ELSE /\ resultado' = None
            /\ pc' = "retorno"
            /\ UNCHANGED <<tabla, par>>
    /\ UNCHANGED <<mainVars, descVars, cambiado, iteracion, lecturas>>

\* Paso 1, one pair of the nested loops
PasoBase ==
    /\ pc = "base"
    /\ par <= Len(Pares(estados))
    /\ LET i == Pares(estados)[par][1]
           j == Pares(estados)[par][2]
       IN  tabla' = IF FinalidadDistinta(estados_finales, i, j)
                    THEN Marcar(tabla, i, j)
                    ELSE tabla
    /\ par' = par + 1
    /\ UNCHANGED <<mainVars, descVars, pc, error, cambiado, iteracion, lecturas, resultado>>

\* "cambiado = True; iteracion = 0" after the loops of Paso 1
IniciarPropagacion ==
    /\ pc = "base"
    /\ par > Len(Pares(estados))
    /\ cambiado' = TRUE
    /\ iteracion' = 0
    /\ pc' = "while"
    /\ UNCHANGED <<mainVars, descVars, error, tabla, par, lecturas, resultado>>

\* "while cambiado:" starts a pass, or ends the loop and returns the table
CabezaWhile ==
    /\ pc = "while"
    /\ IF cambiado
       THEN /\ cambiado' = FALSE
            /\ iteracion' = iteracion + 1
            /\ par' = 1
            /\ pc' = IF Len(Pares(estados)) = 0 THEN "while" ELSE "scan"
       ELSE /\ pc' = "extraer"
            /\ UNCHANGED <<cambiado, iteracion, par>>
    /\ lecturas' = {}
    /\ UNCHANGED <<mainVars, descVars, error, tabla, resultado>>

\* Paso 2, one pair of a pass
RevisarPar ==
    /\ pc = "scan"
    /\ LET i == Pares(estados)[par][1]
           j == Pares(estados)[par][2]
           r == IF tabla[i][j] THEN Omitido
                ELSE RevisarSimbolos(tabla, transiciones, estados, i, j, 0)
       IN  /\ lecturas' = r.leidos \cup {LecturaTabla(i, j)}
           /\ IF r.exc
              THEN /\ resultado' = None
                   /\ pc' = "retorno"
                   /\ UNCHANGED <<tabla, cambiado, par>>
              ELSE /\ tabla' = ActualizarPar(tabla, i, j, r)
                   /\ cambiado' = TrasRevisar(cambiado, r.marca)
                   /\ pc' = IF par = Len(Pares(estados)) THEN "while" ELSE "scan"
                   /\ par' = par + 1
                   /\ UNCHANGED resultado
    /\ UNCHANGED <<mainVars, descVars, error, iteracion>>

\* encontrar_pares_equivalentes and the return of procesar_caso_prueba
Extraer ==
    /\ pc = "extraer"
    /\ resultado' = encontrar_pares_equivalentes(estados, tabla)
    /\ pc' = "retorno"
    /\ UNCHANGED <<mainVars, descVars, error, tabla, par, cambiado, iteracion, lecturas>>

NextCore == ValidarEntrada \/ PasoBase \/ IniciarPropagacion \/ CabezaWhile \/ RevisarPar \/ Extraer

(***************************************************************************)
(* Input families of the decoded descriptions.                             *)
(***************************************************************************)
\* every description that passes validation with n states and rows of
\* 0..MaxSize-n symbols, the rows of possibly different lengths
Validas ==
    UNION {[n : {n}, f : SUBSET (0..(n - 1)),
            t : [1..n -> SeqsUpTo(0..(n - 1), MaxSize - n)]] : n \in 1..MaxSize}

\* five states with rows of 2, 1, 3, 2 and 3 symbols, any final states
FilasCadena == <<<<1, 0>>, <<2>>, <<0, 4, 3>>, <<3, 1>>, <<4, 1, 2>>>>
Cadena == [n : {Len(FilasCadena)}, f : SUBSET (0..(Len(FilasCadena) - 1)), t : {FilasCadena}]

\* malformed and well-formed descriptions over -1..ValMax
Malformadas ==
    [n : (-1)..ValMax, f : SUBSET ((-1)..ValMax),
     t : SeqsUpTo(SeqsUpTo((-1)..ValMax, 1), ValMax)]

InitDesc(d) ==
    /\ estados = d.n
    /\ estados_finales = d.f
    /\ transiciones = d.t
    /\ error = "none"
    /\ tabla = <<>>
    /\ par = 1
    /\ cambiado = FALSE
    /\ iteracion = 0
    /\ lecturas = {}
    /\ resultado = NoResult

Init ==
    /\ lines = <<>>
    /\ casos = 0
    /\ caso = 0
    /\ salida = <<>>
    /\ cortes = <<>>
    /\ bloques = <<>>
    /\ pc = "validar"
    /\ \E d \in Validas \cup Cadena \cup Malformadas : InitDesc(d)

Spec == Init /\ [][NextCore]_vars

(***************************************************************************)
(* main and the reading part of procesar_caso_prueba.  input() pops the    *)
(* first line and raises EOFError when none is left; int() of a line of    *)
(* integer tokens succeeds when the line holds exactly one token.          *)
(* procesar_caso_prueba turns every exception into the result None; main   *)
(* ends on an exception of its own.                                        *)
(***************************************************************************)
EsEntero(l) == Len(l) = 1

\* the locals of procesar_caso_prueba before a call
LocalesIniciales ==
    /\ estados = 0
    /\ estados_finales = {}
    /\ transiciones = <<>>
    /\ error = "none"
    /\ tabla = <<>>
    /\ par = 1
    /\ cambiado = FALSE
    /\ iteracion = 0
    /\ lecturas = {}
    /\ resultado = NoResult

\* "casos = int(input().strip())" and the check of casos
LeerCasos ==
    /\ pc = "main"
    /\ IF lines = <<>> \/ ~EsEntero(Head(lines))
       THEN /\ pc' = "fin"
            /\ UNCHANGED <<casos, caso>>
       ELSE /\ casos' = Head(lines)[1]
            /\ IF casos' <= 0
               THEN pc' = "fin" /\ UNCHANGED caso
               ELSE pc' = "leer_estados" /\ caso' = 1
    /\ lines' = IF lines = <<>> THEN lines ELSE Tail(lines)
    /\ UNCHANGED <<salida, cortes, bloques, descVars, error, tabla, par, cambiado,
                   iteracion, lecturas, resultado>>

\* "estados = int(input().strip())" and the check of estados
LeerEstados ==
    /\ pc = "leer_estados"
    /\ IF lines = <<>> \/ ~EsEntero(Head(lines))
       THEN /\ resultado' = None
            /\ pc' = "retorno"
            /\ UNCHANGED estados
       ELSE /\ estados' = Head(lines)[1]
            /\ IF estados' <= 0
               THEN resultado' = None /\ pc' = "retorno"
               ELSE pc' = "leer_alfabeto" /\ UNCHANGED resultado
    /\ lines' = IF lines = <<>> THEN lines ELSE Tail(lines)
    /\ UNCHANGED <<casos, caso, salida, cortes, bloques, estados_finales, transiciones,
                   error, tabla, par, cambiado, iteracion, lecturas>>

\* "alfabeto = input().strip().split()"
LeerAlfabeto ==
    /\ pc = "leer_alfabeto"
    /\ IF lines = <<>>
       THEN resultado' = None /\ pc' = "retorno" /\ UNCHANGED lines
       ELSE lines' = Tail(lines) /\ pc' = "leer_finales" /\ UNCHANGED resultado
    /\ UNCHANGED <<casos, caso, salida, cortes, bloques, descVars, error, tabla, par,
                   cambiado, iteracion, lecturas>>

\* the final-states line
LeerFinales ==
    /\ pc = "leer_finales"
    /\ IF lines = <<>>
       THEN /\ resultado' = None
            /\ pc' = "retorno"
            /\ UNCHANGED <<lines, estados_finales>>
       ELSE /\ estados_finales' = Range(Head(lines))
            /\ lines' = Tail(lines)
            /\ pc' = "leer_fila"
            /\ UNCHANGED resultado
    /\ UNCHANGED <<casos, caso, salida, cortes, bloques, estados, transiciones, error,
                   tabla, par, cambiado, iteracion, lecturas>>

\* one turn of "for _ in range(estados): fila = ...; transiciones.append(fila)"
LeerFila ==
    /\ pc = "leer_fila"
    /\ IF lines = <<>>
       THEN /\ resultado' = None
            /\ pc' = "retorno"
            /\ UNCHANGED <<lines, transiciones>>
       ELSE /\ transiciones' = Append(transiciones, Head(lines))
            /\ lines' = Tail(lines)
            /\ pc' = IF Len(transiciones') = estados THEN "validar" ELSE "leer_fila"
            /\ UNCHANGED resultado
    /\ UNCHANGED <<casos, caso, salida, cortes, bloques, estados, estados_finales, error,
                   tabla, par, cambiado, iteracion, lecturas>>

\* main: the case returned; report it and go on to the next case
FinCaso ==
    /\ pc = "retorno"
    /\ caso >= 1
    /\ salida' = Append(salida, [r |-> resultado, e |-> error])
    /\ cortes' = Append(cortes, Len(lines))
    /\ caso' = caso + 1
    /\ pc' = IF caso = casos THEN "fin" ELSE "leer_estados"
    /\ estados' = 0
    /\ estados_finales' = {}
    /\ transiciones' = <<>>
    /\ error' = "none"
    /\ tabla' = <<>>
    /\ par' = 1
    /\ cambiado' = FALSE
    /\ iteracion' = 0
    /\ lecturas' = {}
    /\ resultado' = NoResult
    /\ UNCHANGED <<lines, casos, bloques>>

NextMain ==
    \/ LeerCasos \/ LeerEstados \/ LeerAlfabeto \/ LeerFinales \/ LeerFila
    \/ ValidarEntrada \/ PasoBase \/ IniciarPropagacion \/ CabezaWhile
    \/ RevisarPar \/ Extraer \/ FinCaso

(***************************************************************************)
(* Input files: a line with the number of cases, then the cases.  A case   *)
(* is its state-count line, its alphabet line, its final-states line and   *)
(* one row per state.                                                      *)
(***************************************************************************)
\* the lines of a case: n states, alphabet al, final states fi, rows t
Bloque(n, al, fi, t) == <<<<n>>, al, fi>> \o t

\* rows of one symbol: every state to state 0, every state to the next one
\* (the last to state 0), every state to n, which is out of range
FilasDe(n) ==
    {[k \in 1..n |-> <<0>>], [k \in 1..n |-> <<k % n>>], [k \in 1..n |-> <<n>>]}

\* cases with n states: the final state is 0 or n, which is out of range
BloquesDe(n) ==
    {Bloque(n, <<0>>, fi, t) : fi \in {<<0>>, <<n>>}, t \in FilasDe(n)}

TodosLosBloques == UNION {BloquesDe(n) : n \in 0..ValMax}

RECURSIVE Aplanar(_)
Aplanar(bs) == IF bs = <<>> THEN <<>> ELSE Head(bs) \o Aplanar(Tail(bs))

RECURSIVE Longitudes(_)
Longitudes(bs) == IF bs = <<>> THEN <<>> ELSE <<Len(Head(bs))>> \o Longitudes(Tail(bs))

InitMain ==
    /\ pc = "main"
    /\ \E bs \in SeqsUpTo(TodosLosBloques, MaxCasos) : \E c \in {Len(bs), MaxCasos} :
          /\ lines = <<<<c>>>> \o Aplanar(bs)
          /\ bloques = Longitudes(bs)
    /\ casos = 0
    /\ caso = 0
    /\ salida = <<>>
    /\ cortes = <<>>
    /\ LocalesIniciales

SpecMain == InitMain /\ [][NextMain]_vars

(***************************************************************************)
(* Vocabulary of the properties.                                           *)
(***************************************************************************)
EnTabla == pc \in {"base", "while", "scan", "extraer"}
Devuelto == pc = "retorno" /\ error = "ok" /\ resultado # None
TablaLista == pc = "extraer" \/ Devuelto

\* all transition rows have the same number of symbols
Rectangular(trans) == \A a, b \in 1..Len(trans) : Len(trans[a]) = Len(trans[b])

\* the destination reached from state s by the word w
RECURSIVE Correr(_, _, _)
Correr(trans, s, w) ==
    IF w = <<>> THEN s ELSE Correr(trans, trans[s + 1][Head(w) + 1], Tail(w))

\* some word sends exactly one of i, j to a final state; words longer than the
\* number of states distinguish no pair that a shorter word does not
Distinguible(n, finales, trans, i, j) ==
    \E w \in SeqsUpTo(0..(Len(trans[1]) - 1), n) :
        (Correr(trans, i, w) \in finales) # (Correr(trans, j, w) \in finales)

\* exactly one of i, j is a final state
DifierenEnFinalidad(i, j) == (i \in estados_finales) # (j \in estados_finales)

ParesDe(n) == {pr \in (0..(n - 1)) \X (0..(n - 1)) : pr[1] < pr[2]}

\* (a, b) comes before (c, d) in the order by first and then second component
Antes(x, y) == x[1] < y[1] \/ (x[1] = y[1] /\ x[2] < y[2])

\* C1: on a validated description with rows of equal length the finished table
\* marks a pair i < j exactly when some word distinguishes i and j, and the
\* pairs returned are exactly the pairs no word distinguishes
C1_TablaExacta ==
    (TablaLista /\ Rectangular(transiciones)) =>
        /\ \A pr \in ParesDe(estados) :
              tabla[pr[1]][pr[2]]
                  <=> Distinguible(estados, estados_finales, transiciones, pr[1], pr[2])
        /\ Devuelto =>
              Range(resultado) =
                  {pr \in ParesDe(estados) :
                      ~Distinguible(estados, estados_finales, transiciones, pr[1], pr[2])}

\* a returned table of a rectangular description where a pass marked a pair
\* that the base case had left unmarked
C1_Witness ==
    /\ Devuelto
    /\ Rectangular(transiciones)
    /\ \E pr \in ParesDe(estados) :
          tabla[pr[1]][pr[2]] /\ ~DifierenEnFinalidad(pr[1], pr[2])

\* C2 as stated: on every validated description the loop runs at most
\* estados passes, the last one included
C2_Original == EnTabla => iteracion <= estados

\* C2 amended: the loop runs at most one pass more than there are pairs, and
\* at most estados passes when all rows have the same length
C2_PasesAcotados ==
    EnTabla =>
        /\ iteracion <= Len(Pares(estados)) + 1
        /\ Rectangular(transiciones) => iteracion <= estados

\* the loop of a rectangular description ended after more than one pass
C2_Witness ==
    /\ pc = "extraer"
    /\ Rectangular(transiciones)
    /\ iteracion >= 2
    /\ ~cambiado

\* the conditions of the contract of validate
Aceptable(n, finales, trans) ==
    /\ n > 0
    /\ \A e \in finales : 0 <= e /\ e < n
    /\ Len(trans) = n
    /\ \A i \in 1..Len(trans) : \A k \in 1..Len(trans[i]) :
          0 <= trans[i][k] /\ trans[i][k] < n

\* C3: validar_entrada accepts exactly the descriptions with a positive state
\* count, final states in range, as many rows as states and targets in range;
\* a rejected description yields no result; with a positive count a final state
\* out of range gives the final-state error whatever the rows are
C3_Validacion ==
    error # "none" =>
        /\ (error = "ok") <=> Aceptable(estados, estados_finales, transiciones)
        /\ (error # "ok" /\ pc = "retorno") => resultado = None
        /\ (estados > 0 /\ \E e \in estados_finales : e < 0 \/ e >= estados)
              => error = "FinalStateOutOfRange"

\* a final state out of range was reported for a description whose rows are
\* also too few and out of range
C3_Witness ==
    /\ error = "FinalStateOutOfRange"
    /\ pc = "retorno"
    /\ Len(transiciones) # estados
    /\ \E i \in 1..Len(transiciones) : \E k \in 1..Len(transiciones[i]) :
          transiciones[i][k] >= estados

\* C4: the sequence returned holds the unmarked pairs i < j, each once and no
\* other pair, ordered by i and then j; it is empty when every pair is marked
C4_ParesOrdenados ==
    Devuelto =>
        /\ \A k \in 1..Len(resultado) :
              /\ resultado[k] \in ParesDe(estados)
              /\ ~tabla[resultado[k][1]][resultado[k][2]]
        /\ \A k \in 1..(Len(resultado) - 1) : Antes(resultado[k], resultado[k + 1])
        /\ \A pr \in ParesDe(estados) :
              ~tabla[pr[1]][pr[2]] => \E k \in 1..Len(resultado) : resultado[k] = pr
        /\ (\A pr \in ParesDe(estados) : tabla[pr[1]][pr[2]]) => resultado = <<>>

\* a result with pairs of different first states, while another pair is marked
C4_Witness ==
    /\ Devuelto
    /\ \E k \in 1..(Len(resultado) - 1) : resultado[k][1] < resultado[k + 1][1]
    /\ \E pr \in ParesDe(estados) : tabla[pr[1]][pr[2]]

\* Scenario B: two states, no final state, rows [0,1] and [1,0]
EscenarioB ==
    /\ estados = 2
    /\ estados_finales = {}
    /\ transiciones = <<<<0, 1>>, <<1, 0>>>>

\* C5 as stated: Scenario B ends with (0,1) marked and no pair returned
C5_Original == (EscenarioB /\ pc = "retorno") => (tabla[0][1] /\ resultado = <<>>)

\* C5 amended: Scenario B ends with (0,1) unmarked and returned as the only pair
C5_EscenarioB ==
    (EscenarioB /\ pc = "retorno") => (~tabla[0][1] /\ resultado = <<<<0, 1>>>>)

\* Scenario B has run to its return
C5_Witness == EscenarioB /\ pc = "retorno" /\ iteracion = 1

\* C6 as stated: the returned table holds the same value at (i,j) and (j,i)
C6_Original ==
    TablaLista => \A i, j \in 0..(estados - 1) : tabla[i][j] = tabla[j][i]

\* C6 amended: the table is triangular, only entries (i,j) with i < j are ever
\* marked, and a pass looks the table up with the smaller state first
C6_Triangular ==
    EnTabla =>
        /\ \A i, j \in 0..(estados - 1) : tabla[i][j] => i < j
        /\ \A r \in lecturas : r.t = "tabla" => r.a <= r.b

\* a pass looked up a marked pair whose destinations came in decreasing order
C6_Witness ==
    /\ pc \in {"scan", "while"}
    /\ \E r \in lecturas :
          /\ r.t = "tabla"
          /\ r.a < r.b
          /\ tabla[r.a][r.b]
          /\ \E x, y \in lecturas :
                /\ x.t = "fila" /\ y.t = "fila" /\ x.b = y.b /\ x.a < y.a
                /\ transiciones[x.a + 1][x.b + 1] = r.b
                /\ transiciones[y.a + 1][y.b + 1] = r.a

\* C7: in the base case and in the passes a marked pair stays marked, and the
\* pairs of different finality are marked in the finished table
C7_Monotona ==
    /\ [][(pc \in {"base", "while", "scan"}) =>
            \A i, j \in 0..(estados - 1) : tabla[i][j] => tabla'[i][j]]_vars
    /\ [](TablaLista =>
            \A pr \in ParesDe(estados) :
                DifierenEnFinalidad(pr[1], pr[2]) => tabla[pr[1]][pr[2]])

\* a pass has just gone over a pair marked by the base case, after marking
\* another pair itself
C7_Witness ==
    /\ pc \in {"scan", "while"}
    /\ iteracion >= 2
    /\ lecturas # {}
    /\ \E pr \in ParesDe(estados) :
          tabla[pr[1]][pr[2]] /\ ~DifierenEnFinalidad(pr[1], pr[2])
    /\ \E pr \in ParesDe(estados) :
          tabla[pr[1]][pr[2]] /\ DifierenEnFinalidad(pr[1], pr[2])

\* the symbols present in the rows of both i and j
Comunes(trans, i, j) == 0..(Min(Len(trans[i + 1]), Len(trans[j + 1])) - 1)

\* C9: a pass marks an unmarked pair i < j exactly when a symbol present in
\* both rows leads to different destinations whose pair is marked at that
\* moment; the reads of rows and table stay within bounds
C9_ReglaDePropagacion ==
    [][pc = "scan" =>
        LET i == Pares(estados)[par][1]
            j == Pares(estados)[par][2]
        IN  /\ ~tabla[i][j] =>
                 (tabla'[i][j] <=>
                     \E a \in Comunes(transiciones, i, j) :
                         LET p == transiciones[i + 1][a + 1]
                             q == transiciones[j + 1][a + 1]
                         IN  p # q /\ tabla[Min(p, q)][Max(p, q)])
            /\ \A r \in lecturas' :
                 /\ r.t = "fila" =>
                       /\ 0 <= r.a /\ r.a < Len(transiciones)
                       /\ 0 <= r.b /\ r.b < Len(transiciones[r.a + 1])
                 /\ r.t = "tabla" =>
                       /\ 0 <= r.a /\ r.a < estados
                       /\ 0 <= r.b /\ r.b < estados
            /\ pc' # "retorno"]_vars

\* a pass after the first has just marked a pair i < j of equal finality in
\* which row i is longer than row j: the pass before went through all symbols
\* of row i, passing over those that row j lacks
C9_Witness ==
    /\ pc \in {"scan", "while"}
    /\ iteracion >= 2
    /\ \E x, y \in lecturas :
          /\ x.t = "fila" /\ y.t = "fila" /\ x.a < y.a
          /\ Len(transiciones[x.a + 1]) > Len(transiciones[y.a + 1])
          /\ tabla[x.a][y.a]
          /\ ~DifierenEnFinalidad(x.a, y.a)

RECURSIVE Suma(_)
Suma(q) == IF q = <<>> THEN 0 ELSE Head(q) + Suma(Tail(q))

\* C8: the table is built and the pairs are extracted only for a description
\* that passed validation; a case whose description is not acceptable returns
\* None; and main processes every announced case, whatever the earlier ones
\* returned
C8_EtapasEnOrden ==
    /\ EnTabla => (error = "ok" /\ Aceptable(estados, estados_finales, transiciones))
    /\ (pc = "retorno" /\ ~Aceptable(estados, estados_finales, transiciones))
          => resultado = None
    /\ pc \notin {"main", "fin"} => Len(salida) = caso - 1
    /\ (pc = "fin" /\ casos > 0) => Len(salida) = casos
    /\ \A k \in 1..Len(salida) : salida[k].e # "ok" => salida[k].r = None

\* the first case was rejected by the validation and the second one was then
\* processed to its pairs
C8_Witness ==
    /\ pc = "fin"
    /\ Len(salida) = 2
    /\ salida[1].e \in {"FinalStateOutOfRange", "TransitionTargetOutOfRange"}
    /\ salida[1].r = None
    /\ salida[2].e = "ok"
    /\ salida[2].r # None

\* C10: in a file that holds as many cases as it announces, each call of
\* procesar_caso_prueba leaves the cursor at the first line of the next case
C10_CursorAlineado ==
    casos = Len(bloques) =>
        \A k \in 1..Len(cortes) :
            cortes[k] = Suma(SubSeq(bloques, k + 1, Len(bloques)))

====
